---- MODULE Spec2Model ----
(***************************************************************************)
(* Model of the BLE command / retry / reconnect layer of the LED           *)
(* controller (src/js/ble-controller-pro.js, class BLEController) and of   *)
(* its command encoder.                                                    *)
(*                                                                         *)
(* Time is kept in milliseconds.  The program reads the clock only as the  *)
(* difference Date.now() - lastCommandTime, compared with commandDelay, so *)
(* that difference is the state kept for it (sinceLastCommand, saturating  *)
(* at commandDelay); every setTimeout is a countdown.  Tick lets time pass *)
(* up to the next pending timer; a timer that is due fires before time     *)
(* passes again.  A platform promise (requestDevice, gatt.connect,         *)
(* getPrimaryService, getCharacteristic) settles whenever its Resolve or   *)
(* Reject action is taken, and may never settle.                           *)
(*                                                                         *)
(* The device registry (src/js/device-manager.js, class DeviceManager) is  *)
(* modelled next to it: the devices and groups lists, the connection       *)
(* history, localStorage, and the frames of sendHardwareCommand.  Spec     *)
(* runs the controller, SpecLate the controller on a platform that settles *)
(* abandoned writes late, SpecTwo two callers of sendCommand that do not   *)
(* wait for each other, SpecFair the controller with timers that fire,     *)
(* SpecEnc the command encoders, SpecReg the registry operations and       *)
(* SpecHist the history on its own.                                        *)
(*                                                                         *)
(* Two more parts of the application stand beside these: the recovery of   *)
(* the page, handleBLEDisconnect (src/unnamed/part_001), run by SpecPage,  *)
(* and the timers of the service worker (src/timer-service-worker.js),     *)
(* run by SpecWorker.                                                      *)
(***************************************************************************)
EXTENDS Integers, Sequences, FiniteSets, TLC

\* ------------------------------------------------------------------ bounds
MaxListeners == 2      \* listener count is kept up to this many ("or more")
MaxLoops     == 2      \* attemptReconnect invocations that can be alive at once
Latency      == 20     \* a platform write that is not instant settles after this
MaxOps       == 3      \* operations the environment starts in one run: API calls of
                       \* the application and link drops
MaxOverlapOps == 1     \* further operations in a run in which two calls overlapped
Over         == 2      \* how far encoder arguments go past each end of the valid range
MaxStr       == 2      \* longest string given to the encoder as an argument
MaxRegOps    == 6      \* registry operations of the device manager in one run
MaxGroups    == 4      \* groups created in one run
MaxConnects  == 1      \* connectToDevice is called while the history is shorter
MaxAppCalls  == 6      \* disconnect events and user disconnects on the page
MaxRuns      == 2      \* handleBLEDisconnect invocations that can be recorded at once
MaxSwMessages == 3     \* messages the timer service worker receives in one run
TimerWait    == 60     \* triggerTime - Date.now() of a timer that is not due, and
                       \* its repeatInterval
MaxHistoryCalls == 150 \* addToHistory calls in one run

\* ------------------------------------------------------- program constants
commandDelay   == 50      \* this.commandDelay
Retries        == 3       \* sendCommand(command, retries = 3)
WriteTimeoutMs == 5000    \* the Promise.race timer around writeValue
SettleDelay    == 50      \* wait after a successful write
BackoffStep    == 100     \* wait 100 * attempt before the next attempt
maxAttempts    == 3       \* attemptReconnect
delay          == 3000    \* attemptReconnect
AUTO_RECONNECT_DELAY == 3000        \* APP_CONFIG of the page
AUTO_RECONNECT_MAX_ATTEMPTS == 3
historyLimit   == 100     \* entries addToHistory keeps (device manager)

Null    == "null"
Live    == "chr"     \* a characteristic resolved on the link that is still open
Stale   == "stale"   \* a characteristic object whose link has since dropped
NoTimer == 0 - 1

Callers == {"c1", "c2"}            \* independent callers of the command API
Sequential == {"c1"}               \* one caller that awaits each call before the next
Loops   == 1..MaxLoops             \* slots for attemptReconnect invocations
User    == 0                       \* owner of a connect() called by the application
Owners  == {User} \cup Loops

KnownProtocols == {"ELK_BLEDOM", "GENERIC"}        \* keys of SERVICES / COMMANDS
ProtocolArgs   == {"ELK_BLEDOM"}                   \* connect(deviceId, protocol = 'ELK_BLEDOM')
Apis == {"sendCommand", "setColorRGB", "setBrightness", "setEffect", "setPower"}

VARIABLES
  device, server, service, characteristic,  \* BLEController fields
  isConnected, protocol, deviceName, deviceId,
  sinceLastCommand,     \* Date.now() - this.lastCommandTime, capped at commandDelay
  gattConnected,        \* device.gatt.connected of the one physical device
  listeners,            \* gattserverdisconnected listeners registered on the device
  appHandler,           \* window.handleBLEDisconnect is defined
  lastEvent,            \* the last gattserverdisconnected event: what caused it and
                        \* how many times it ran handleDisconnect
  send,                 \* per caller: the sendCommand call in flight
  conn,                 \* per owner: the connect() call in flight
  loop,                 \* per slot: the attemptReconnect invocation
  sinceLastWrite,       \* time since the last writeValue was issued, capped
  sinceLastOkWrite,     \* time since the last writeValue that resolved was issued, capped
  overlap,              \* some sendCommand was started while another was in flight
  exhausted,            \* an attemptReconnect used up its attempts; no user action since
  autoAfterExhausted,   \* a recovery connect started (or succeeded) while exhausted
  ops,                  \* operations the environment has started so far
  enc,                  \* the last call of the command encoder: arguments and frame
  devices, groups,      \* DeviceManager fields
  connectionHistory, currentDevice,
  storage,              \* localStorage: the texts saved under the three keys
  nextId,               \* how many ids generateId has handed out, plus one
  abandoned,            \* some writeValue promise that lost the race against the
                        \* 5000 ms timer is still pending
  clock,                \* Date.now() of the device manager: registry calls so far
  returned,             \* the registry method called last and what it returned
  AppState,             \* AppState.ble of the page: connected, reconnecting,
                        \* reconnectAttempts
  recovery,             \* per slot: the handleBLEDisconnect invocation of the page
  appCalls,             \* operations on the page so far
  activeTimers,         \* the Map of the timer service worker: id -> timer
  timeouts,             \* setTimeout callbacks and triggerTimer calls of the worker
  executed,             \* the last timer action the worker executed
  swMessages            \* messages the worker has received so far

dmVars == <<devices, groups, connectionHistory, currentDevice, storage, nextId, clock,
            returned>>
sessionVars == <<device, server, service, characteristic, isConnected, protocol,
                 deviceName, deviceId>>
appVars == <<AppState, recovery, appCalls>>
swVars == <<activeTimers, timeouts, executed, swMessages>>
\* the parts of the page the controller does not touch
otherVars == <<dmVars, appVars, swVars>>
vars == <<device, server, service, characteristic, isConnected, protocol, deviceName,
          deviceId, sinceLastCommand, gattConnected, listeners, appHandler,
          lastEvent, send, conn, loop, sinceLastWrite, overlap, exhausted,
          autoAfterExhausted, ops, sinceLastOkWrite, enc, dmVars, abandoned,
          appVars, swVars>>

\* drops and disconnects the environment may cause: one more once two calls
\* have overlapped
OpsLimit == MaxOps + (IF overlap THEN MaxOverlapOps ELSE 0)

Min(S) == CHOOSE x \in S : \A y \in S : x <= y
Cap(x, c) == IF x > c THEN c ELSE x

\* ------------------------------------------------------------ sendCommand
IdleSend == [pc |-> "idle", attempt |-> 0, timer |-> NoTimer,
             ready |-> NoTimer, writes |-> 0, result |-> "none", guard |-> "none",
             gap |-> commandDelay, elapsed |-> commandDelay, okGap |-> commandDelay,
             link |-> TRUE, cut |-> FALSE, prev |-> "none"]

Resting(s) == s.pc \in {"idle", "done"}

\* catch block of sendCommand: last attempt returns false, otherwise back off
Returned(s, r) ==
  [IdleSend EXCEPT !.pc = "done", !.result = r, !.writes = s.writes, !.guard = s.guard,
                   !.cut = s.cut]

\* variant: the comparison with retries is off by one
AttemptFailedOffByOne(s) ==
  IF s.attempt = Retries + 1
  THEN Returned(s, "false")
  ELSE [s EXCEPT !.pc = "backoff", !.timer = BackoffStep * s.attempt, !.ready = NoTimer,
                 !.gap = commandDelay, !.elapsed = commandDelay,
                 !.okGap = commandDelay, !.link = TRUE]

\* variant: the same wait after every failed attempt
AttemptFailedFlat(s) ==
  IF s.attempt = Retries
  THEN Returned(s, "false")
  ELSE [s EXCEPT !.pc = "backoff", !.timer = BackoffStep, !.ready = NoTimer,
                 !.gap = commandDelay, !.elapsed = commandDelay,
                 !.okGap = commandDelay, !.link = TRUE]

AttemptFailed(s) ==
  IF s.attempt = Retries
  THEN Returned(s, "false")
  ELSE [s EXCEPT !.pc = "backoff", !.timer = BackoffStep * s.attempt, !.ready = NoTimer,
                 !.gap = commandDelay, !.elapsed = commandDelay,
                 !.okGap = commandDelay, !.link = TRUE]

\* new Uint8Array(command); Promise.race([characteristic.writeValue(data), timer])
IssueWrite(s, chr, up, lat) ==
  IF chr = Null
  THEN AttemptFailed(s)    \* TypeError: this.characteristic is null
  ELSE [s EXCEPT !.pc = "write", !.timer = WriteTimeoutMs, !.ready = lat,
                 !.writes = @ + 1, !.gap = sinceLastWrite,
                 !.elapsed = sinceLastCommand, !.okGap = sinceLastOkWrite,
                 !.link = (up /\ chr = Live)]

\* variant: the test of the link is outside the try block, so the TypeError on a
\* released session leaves sendCommand
AfterFloodUncaught(s, lat) ==
  IF device = Null
  THEN Returned(s, "throw")
  ELSE IF ~gattConnected
       THEN [s EXCEPT !.pc = "rc_gatt", !.timer = NoTimer]
       ELSE IssueWrite(s, characteristic, TRUE, lat)

\* if (!this.device.gatt.connected) await this.reconnect();
AfterFlood(s, lat) ==
  IF device = Null
  THEN AttemptFailed(s)    \* TypeError: this.device is null
  ELSE IF ~gattConnected
       THEN [s EXCEPT !.pc = "rc_gatt", !.timer = NoTimer]
       ELSE IssueWrite(s, characteristic, TRUE, lat)

\* variant: no flood protection
AttemptBeginNoFlood(s, lat) == AfterFlood(s, lat)

\* flood protection at the head of every attempt
AttemptBegin(s, lat) ==
  IF sinceLastCommand < commandDelay
  THEN [s EXCEPT !.pc = "floodWait", !.timer = commandDelay - sinceLastCommand]
  ELSE AfterFlood(s, lat)

\* variant: the guard looks at the characteristic only
NotConnectedNoFlag == characteristic = Null

\* if (!this.isConnected || !this.characteristic) return false;
NotConnected == ~isConnected \/ characteristic = Null

sendCommandEntry(s, lat) ==
  IF NotConnected
  THEN Returned([s EXCEPT !.guard = "rejected"], "false")
  ELSE AttemptBegin([s EXCEPT !.attempt = 1, !.guard = "passed"], lat)

\* this.COMMANDS[this.protocol].COLOR / BRIGHTNESS / EFFECT / POWER_ON
EncodingThrows(api) == api # "sendCommand" /\ protocol \notin KnownProtocols

Lats == {0, Latency, NoTimer}

\* the step issued a writeValue
WroteIn(old, new) == new.pc = "write" /\ old.pc # "write"

SendFrame(c, new) ==
  /\ send' = [send EXCEPT ![c] = new]
  /\ sinceLastWrite' = IF WroteIn(send[c], new) THEN 0 ELSE sinceLastWrite
  /\ UNCHANGED sinceLastOkWrite

\* a caller invokes sendCommand, or one of the semantic commands built on it
Call(c, api, lat) ==
  /\ Resting(send[c])
  /\ ops < MaxOps /\ ops' = ops + 1
  /\ c = "c1" \/ ~Resting(send["c1"])    \* c2 is the caller that overlaps c1
  /\ LET new == IF EncodingThrows(api)
                THEN Returned(IdleSend, "throw")
                ELSE sendCommandEntry([IdleSend EXCEPT !.prev = send[c].result], lat)
     IN /\ SendFrame(c, new)
        /\ overlap' = (overlap \/ \E o \in Callers \ {c} : ~Resting(send[o]))
  /\ UNCHANGED <<sessionVars, sinceLastCommand, gattConnected, listeners, appHandler, enc, otherVars, abandoned,
                 lastEvent, conn, loop, exhausted, autoAfterExhausted>>

SendOnly == <<sessionVars, sinceLastCommand, gattConnected, listeners, appHandler, enc, otherVars, abandoned,
              lastEvent, conn, loop, overlap, exhausted, autoAfterExhausted,
              ops>>

\* the flood-control setTimeout fires
FloodDone(c, lat) ==
  /\ send[c].pc = "floodWait" /\ send[c].timer = 0
  /\ SendFrame(c, AfterFlood([send[c] EXCEPT !.timer = NoTimer], lat))
  /\ UNCHANGED SendOnly

\* the back-off setTimeout fires: next attempt
BackoffDone(c, lat) ==
  /\ send[c].pc = "backoff" /\ send[c].timer = 0
  /\ SendFrame(c, AttemptBegin([send[c] EXCEPT !.timer = NoTimer, !.attempt = @ + 1], lat))
  /\ UNCHANGED SendOnly

\* variant: returns true as soon as writeValue resolves, without the time stamp and
\* without the settle wait
WriteResolveNoSettle(c) ==
  /\ send[c].pc = "write" /\ send[c].ready = 0
  /\ send[c].link
  /\ send' = [send EXCEPT ![c] = Returned(@, "true")]
  /\ sinceLastOkWrite' = Cap(WriteTimeoutMs - send[c].timer, commandDelay)
  /\ UNCHANGED <<sessionVars, sinceLastCommand, gattConnected, listeners, appHandler, enc, otherVars, abandoned,
                 lastEvent, conn, loop, sinceLastWrite, overlap, exhausted,
                 autoAfterExhausted, ops>>

\* writeValue resolves before the timer: this.lastCommandTime = Date.now(), settle wait
WriteResolve(c) ==
  /\ send[c].pc = "write" /\ send[c].ready = 0
  /\ send[c].link
  /\ send' = [send EXCEPT ![c] = [@ EXCEPT !.pc = "settle", !.timer = SettleDelay,
                                          !.ready = NoTimer, !.gap = commandDelay,
                                          !.elapsed = commandDelay,
                                          !.okGap = commandDelay]]
  /\ sinceLastCommand' = 0
  /\ sinceLastOkWrite' = Cap(WriteTimeoutMs - send[c].timer, commandDelay)
  /\ UNCHANGED <<sessionVars, gattConnected, listeners, appHandler, enc, otherVars, abandoned, lastEvent,
                 conn, loop, sinceLastWrite, overlap, exhausted, autoAfterExhausted,
                 ops>>

\* writeValue rejects before the timer
WriteReject(c) ==
  /\ send[c].pc = "write" /\ send[c].ready = 0
  /\ SendFrame(c, AttemptFailed(send[c]))
  /\ UNCHANGED SendOnly

\* the 5000 ms timer wins the race; the write stays pending and is abandoned
WriteTimedOut(c) ==
  /\ send[c].pc = "write" /\ send[c].timer = 0
  /\ SendFrame(c, AttemptFailed(send[c]))
  /\ abandoned' = TRUE
  /\ UNCHANGED <<sessionVars, sinceLastCommand, gattConnected, listeners, appHandler, enc,
                 otherVars, lastEvent, conn, loop, overlap, exhausted, autoAfterExhausted,
                 ops>>

\* variant: the continuation after the race runs for the late result as well
LateSettleStamps ==
  /\ abandoned
  /\ abandoned' = FALSE
  /\ sinceLastCommand' = 0
  /\ UNCHANGED <<sessionVars, gattConnected, listeners, appHandler, enc, otherVars, lastEvent,
                 send, conn, loop, sinceLastWrite, sinceLastOkWrite, overlap, exhausted,
                 autoAfterExhausted, ops>>

\* the writeValue promises that lost the race resolve or reject after all: the promise
\* Promise.race returned is settled already, so nothing after the await runs for them
LateSettle ==
  /\ abandoned
  /\ abandoned' = FALSE
  /\ UNCHANGED <<sessionVars, sinceLastCommand, gattConnected, listeners, appHandler, enc,
                 otherVars, lastEvent, send, conn, loop, sinceLastWrite, sinceLastOkWrite,
                 overlap, exhausted, autoAfterExhausted, ops>>

\* the settle setTimeout fires: return true
SettleDone(c) ==
  /\ send[c].pc = "settle" /\ send[c].timer = 0
  /\ send' = [send EXCEPT ![c] = Returned(@, "true")]
  /\ UNCHANGED <<sessionVars, sinceLastCommand, gattConnected, listeners, appHandler, enc, otherVars, abandoned,
                 lastEvent, conn, loop, sinceLastWrite, sinceLastOkWrite, overlap, exhausted,
                 autoAfterExhausted, ops>>

\* --------------------------------------------------- reconnect() inside send
RcFailedVars == <<device, server, service, characteristic, protocol, deviceName,
                  deviceId, sinceLastCommand, gattConnected, listeners, appHandler, enc, otherVars, abandoned,
                  lastEvent, conn, loop, overlap, exhausted, autoAfterExhausted,
                  ops>>

\* catch block of reconnect(): isConnected = false, return false; sendCommand goes on
\* to the write
reconnectFailed(c, up, lat) ==
  /\ isConnected' = FALSE
  /\ SendFrame(c, IssueWrite(send[c], characteristic, up, lat))

\* a platform promise awaited by reconnect() resolves
RcResolve(c, lat) ==
  /\ \/ /\ send[c].pc = "rc_gatt"
        /\ server' = "srv" /\ gattConnected' = TRUE
        /\ IF protocol \in KnownProtocols
           THEN /\ send' = [send EXCEPT ![c] = [@ EXCEPT !.pc = "rc_service"]]
                /\ UNCHANGED <<isConnected, sinceLastWrite, sinceLastOkWrite>>
           ELSE reconnectFailed(c, TRUE, lat)   \* getPrimaryService(undefined) throws
        /\ UNCHANGED <<service, characteristic>>
     \/ /\ send[c].pc = "rc_service" /\ gattConnected
        /\ service' = "svc"
        /\ send' = [send EXCEPT ![c] = [@ EXCEPT !.pc = "rc_char"]]
        /\ UNCHANGED <<server, characteristic, gattConnected, isConnected, sinceLastWrite, sinceLastOkWrite>>
     \/ /\ send[c].pc = "rc_char" /\ gattConnected
        /\ characteristic' = Live
        /\ SendFrame(c, IssueWrite(send[c], Live, TRUE, lat))
        /\ UNCHANGED <<server, service, gattConnected, isConnected>>
  /\ UNCHANGED <<device, protocol, deviceName, deviceId, sinceLastCommand, listeners,
                 appHandler, enc, otherVars, abandoned, lastEvent, conn, loop, overlap, exhausted,
                 autoAfterExhausted, ops>>

\* a platform promise awaited by reconnect() rejects
RcReject(c, lat) ==
  /\ send[c].pc \in {"rc_gatt", "rc_service", "rc_char"}
  /\ reconnectFailed(c, gattConnected, lat)
  /\ UNCHANGED RcFailedVars

\* ------------------------------------------------------ attemptReconnect
IdleConn == [pc |-> "idle", protocol |-> Null]
IdleLoop == [pc |-> "idle", attempt |-> 0, timer |-> NoTimer, result |-> "none",
             attempts |-> 0, waited |-> 0]

LoopFree(l) == loop[l].pc \in {"idle", "done"}
FreeLoops == {l \in Loops : LoopFree(l)}

\* attemptReconnect up to its first await (the 3000 ms setTimeout)
attemptReconnectEntry ==
  [IdleLoop EXCEPT !.pc = "wait", !.attempt = 1, !.timer = delay]

LoopReturned(r, res) ==
  [IdleLoop EXCEPT !.pc = "done", !.result = res, !.attempts = r.attempts]

\* end of one pass of the for loop without a successful connect
LoopNext(r) ==
  IF r.attempt >= maxAttempts
  THEN LoopReturned(r, "false")
  ELSE [r EXCEPT !.pc = "wait", !.attempt = @ + 1, !.timer = delay, !.waited = 0]

\* attemptReconnect returned false after maxAttempts failed connects
AllFailed(r) == r.pc = "done" /\ r.result = "false" /\ r.attempts = maxAttempts

\* connect(): scan first when there is no device, then device.gatt.connect()
connectEntry(proto) ==
  [pc |-> IF device = Null THEN "scan" ELSE "gatt", protocol |-> proto]

\* if (this.device && this.device.gatt) await this.connect(null, this.protocol)
ReconnectGuard == device # Null

\* the 3000 ms setTimeout of attemptReconnect fires
LoopTimer(l) ==
  /\ loop[l].pc = "wait" /\ loop[l].timer = 0
  /\ IF ReconnectGuard
     THEN /\ conn' = [conn EXCEPT ![l] = connectEntry(protocol)]
          /\ loop' = [loop EXCEPT ![l] =
                [@ EXCEPT !.pc = "connecting", !.timer = NoTimer, !.attempts = @ + 1]]
          /\ autoAfterExhausted' = (autoAfterExhausted \/ exhausted)
          /\ UNCHANGED exhausted
     ELSE /\ loop' = [loop EXCEPT ![l] = LoopNext(@)]
          /\ exhausted' = (exhausted \/ AllFailed(loop'[l]))
          /\ UNCHANGED <<conn, autoAfterExhausted>>
  /\ UNCHANGED <<sessionVars, sinceLastCommand, gattConnected, listeners, appHandler, enc, otherVars, abandoned,
                 lastEvent, send, sinceLastWrite, sinceLastOkWrite, overlap, ops>>

\* ---------------------------------------------------------------- connect
Connecting(o) == conn[o].pc \in {"scan", "gatt", "service", "char"}

\* what the caller of connect() does with its outcome: attemptReconnect returns true
\* on success and goes round its loop on an error; the application just gets it
ConnectReturns(o, ok) ==
  IF o \in Loops
  THEN /\ loop' = [loop EXCEPT ![o] =
                     IF ok THEN LoopReturned(@, "true")
                     ELSE LoopNext(@)]
       /\ exhausted' = (exhausted \/ AllFailed(loop'[o]))
       /\ autoAfterExhausted' = (autoAfterExhausted \/ (ok /\ exhausted))
  ELSE UNCHANGED <<loop, exhausted, autoAfterExhausted>>

\* the application calls connect(deviceId, protocol)
UserConnect(proto) ==
  /\ ~Connecting(User)
  /\ ops < MaxOps /\ ops' = ops + 1
  /\ conn' = [conn EXCEPT ![User] = connectEntry(proto)]
  /\ exhausted' = FALSE
  /\ UNCHANGED <<sessionVars, sinceLastCommand, gattConnected, listeners, appHandler, enc, otherVars, abandoned,
                 lastEvent, send, loop, sinceLastWrite, sinceLastOkWrite, overlap,
                 autoAfterExhausted>>

\* last step of the try block: status, then the listener is registered
connectSucceeds(o) ==
  /\ characteristic' = Live
  /\ protocol' = conn[o].protocol
  /\ IF device = Null
     THEN \* this.device.name throws after isConnected = true; the catch resets it
          /\ isConnected' = FALSE
          /\ conn' = [conn EXCEPT ![o].pc = "fail"]
          /\ ConnectReturns(o, FALSE)
          /\ UNCHANGED <<deviceName, deviceId, listeners>>
     ELSE /\ isConnected' = TRUE
          /\ deviceName' = device /\ deviceId' = device
          /\ listeners' = Cap(listeners + 1, MaxListeners)
          /\ conn' = [conn EXCEPT ![o].pc = "ok"]
          /\ ConnectReturns(o, TRUE)

\* the platform promise connect() awaits resolves
ConnResolve(o) ==
  /\ \/ /\ conn[o].pc = "scan"
        /\ device' = "dev"
        /\ conn' = [conn EXCEPT ![o].pc = "gatt"]
        /\ UNCHANGED <<server, service, characteristic, isConnected, protocol,
                       deviceName, deviceId, gattConnected, listeners, loop, exhausted,
                       autoAfterExhausted>>
     \/ /\ conn[o].pc = "gatt"
        /\ server' = "srv" /\ gattConnected' = TRUE
        /\ conn' = [conn EXCEPT ![o].pc = "service"]
        /\ UNCHANGED <<device, service, characteristic, isConnected, protocol,
                       deviceName, deviceId, listeners, loop, exhausted,
                       autoAfterExhausted>>
     \/ /\ conn[o].pc = "service" /\ gattConnected
        /\ service' = "svc"
        /\ conn' = [conn EXCEPT ![o].pc = "char"]
        /\ UNCHANGED <<device, server, characteristic, isConnected, protocol,
                       deviceName, deviceId, gattConnected, listeners, loop, exhausted,
                       autoAfterExhausted>>
     \/ /\ conn[o].pc = "char" /\ gattConnected
        /\ connectSucceeds(o)
        /\ UNCHANGED <<device, server, service, gattConnected>>
  /\ UNCHANGED <<sinceLastCommand, appHandler, enc, otherVars, abandoned, lastEvent, send, sinceLastWrite, sinceLastOkWrite,
                 overlap, ops>>

\* variant: the catch block rethrows without resetting isConnected
connectFailsKeepsFlag(o) ==
  /\ UNCHANGED isConnected
  /\ conn' = [conn EXCEPT ![o].pc = "fail"]
  /\ ConnectReturns(o, FALSE)

\* catch block of connect(): isConnected = false, notify, rethrow
connectFails(o) ==
  /\ isConnected' = FALSE
  /\ conn' = [conn EXCEPT ![o].pc = "fail"]
  /\ ConnectReturns(o, FALSE)

\* the platform promise connect() awaits rejects (scan cancelled, GATT error, ...)
ConnReject(o) ==
  /\ Connecting(o)
  /\ connectFails(o)
  /\ UNCHANGED <<device, server, service, characteristic, protocol, deviceName,
                 deviceId, sinceLastCommand, gattConnected, listeners, appHandler, enc, otherVars, abandoned,
                 lastEvent, send, sinceLastWrite, sinceLastOkWrite, overlap, ops>>

\* ------------------------------------------- gattserverdisconnected listener
\* the k lowest members of S
RECURSIVE Pick(_, _)
Pick(S, k) == IF k = 0 \/ S = {} THEN {} ELSE {Min(S)} \cup Pick(S \ {Min(S)}, k - 1)

\* handleDisconnect (the second definition of the class, which is the one in force):
\* window.handleBLEDisconnect() when the app defines it, else this.attemptReconnect()
\* variant: the definition of handleDisconnect that comes first in the class, which
\* only clears the flag and refreshes the status display
handleDisconnectFirst(cause, n) ==
  /\ lastEvent' = [cause |-> cause, handled |-> n]
  /\ UNCHANGED loop

handleDisconnect(cause, n) ==
  /\ lastEvent' = [cause |-> cause, handled |-> n]
  /\ IF appHandler
     THEN UNCHANGED loop
     ELSE loop' = [l \in Loops |-> IF l \in Pick(FreeLoops, n)
                                   THEN attemptReconnectEntry ELSE loop[l]]

CanDispatch == appHandler \/ Cardinality(FreeLoops) >= listeners

\* the platform closes the link: every pending write on it will reject
LinkClosed == [c \in Callers |-> IF send[c].pc = "write"
                                 THEN [send[c] EXCEPT !.link = FALSE] ELSE send[c]]

\* history: disconnect() was called while the call was in flight
Released(f) == [c \in Callers |-> IF Resting(f[c]) THEN f[c]
                                  ELSE [f[c] EXCEPT !.cut = TRUE]]

\* the physical link drops (power-off, out of range): the platform fires the event
LinkDrop ==
  /\ gattConnected /\ CanDispatch
  /\ ops < OpsLimit /\ ops' = ops + 1
  /\ gattConnected' = FALSE
  /\ send' = LinkClosed
  /\ characteristic' = IF characteristic = Live THEN Stale ELSE characteristic
  /\ isConnected' = IF listeners > 0 THEN FALSE ELSE isConnected
  /\ handleDisconnect("drop", listeners)
  /\ exhausted' = FALSE
  /\ abandoned' = FALSE       \* the abandoned writes reject with the link, unheard
  /\ UNCHANGED <<device, server, service, protocol, deviceName, deviceId,
                 sinceLastCommand, listeners, appHandler, enc, otherVars, conn, sinceLastWrite, sinceLastOkWrite, overlap,
                 autoAfterExhausted>>

\* variant: the fields are cleared only when there was an open link to close
disconnectClearsIfOpen ==
  IF device # Null /\ gattConnected
  THEN /\ isConnected' = FALSE
       /\ device' = Null /\ server' = Null /\ service' = Null /\ characteristic' = Null
  ELSE UNCHANGED <<isConnected, device, server, service, characteristic>>

\* the unconditional tail of disconnect()
disconnectClears ==
  /\ isConnected' = FALSE
  /\ device' = Null /\ server' = Null /\ service' = Null /\ characteristic' = Null

\* disconnect(): gatt.disconnect() when the link is open (which fires the event on the
\* device synchronously), then the session fields are cleared
Disconnect ==
  /\ ops < OpsLimit /\ ops' = ops + 1
  /\ IF device # Null /\ gattConnected
     THEN /\ CanDispatch
          /\ gattConnected' = FALSE
          /\ send' = Released(LinkClosed)
          /\ handleDisconnect("disconnect", listeners)
          /\ abandoned' = FALSE
     ELSE /\ send' = Released(send)
          /\ UNCHANGED <<gattConnected, loop, lastEvent, abandoned>>
  /\ disconnectClears
  /\ exhausted' = FALSE
  /\ UNCHANGED <<protocol, deviceName, deviceId, sinceLastCommand, listeners,
                 appHandler, enc, otherVars, conn, sinceLastWrite, sinceLastOkWrite, overlap, autoAfterExhausted>>

\* ------------------------------------------------------------------- time
Timers == ({send[c].timer : c \in Callers} \cup {send[c].ready : c \in Callers}
           \cup {loop[l].timer : l \in Loops}) \ {NoTimer}

Later(t, d) == IF t = NoTimer THEN NoTimer ELSE t - d

Tick ==
  /\ Timers # {} => Min(Timers) > 0
  /\ LET d == IF Timers = {} THEN commandDelay ELSE Min(Timers) IN
     /\ sinceLastCommand' = Cap(sinceLastCommand + d, commandDelay)
     /\ sinceLastWrite' = Cap(sinceLastWrite + d, commandDelay)
     /\ sinceLastOkWrite' = Cap(sinceLastOkWrite + d, commandDelay)
     /\ send' = [c \in Callers |-> [send[c] EXCEPT !.timer = Later(@, d),
                                                   !.ready = Later(@, d)]]
     /\ loop' = [l \in Loops |-> [loop[l] EXCEPT !.timer = Later(@, d),
                    !.waited = IF loop[l].pc = "wait" THEN Cap(@ + d, delay) ELSE @]]
  /\ UNCHANGED <<sessionVars, gattConnected, listeners, appHandler, enc, otherVars, abandoned, lastEvent,
                 conn, overlap, exhausted, autoAfterExhausted, ops>>


\* ---------------------------------------------------------- command encoder
\* JavaScript values that reach the encoder: numbers (integers here), strings (as
\* sequences of characters), NaN and undefined
Num(n) == [t |-> "num", n |-> n, s |-> <<>>]
Str(s) == [t |-> "str", n |-> 0, s |-> s]
NaN == [t |-> "nan", n |-> 0, s |-> <<>>]
Undefined == [t |-> "undefined", n |-> 0, s |-> <<>>]

Digits == <<"0", "1", "2", "3", "4", "5", "6", "7", "8", "9">>
IsDigit(ch) == \E i \in 1..10 : Digits[i] = ch
DigitValue(ch) == (CHOOSE i \in 1..10 : Digits[i] = ch) - 1

RECURSIVE NatToString(_)
NatToString(n) ==
  IF n < 10 THEN <<Digits[n + 1]>>
  ELSE Append(NatToString(n \div 10), Digits[(n % 10) + 1])

\* the string parseInt(x) works on
JSToString(x) ==
  CASE x.t = "num" -> IF x.n < 0 THEN <<"-">> \o NatToString(0 - x.n)
                      ELSE NatToString(x.n)
    [] x.t = "str" -> x.s
    [] x.t = "nan" -> <<"N", "a", "N">>
    [] x.t = "undefined" -> <<"u", "n", "d", "e", "f", "i", "n", "e", "d">>

\* the value of the longest run of decimal digits at the head of s
RECURSIVE ParseDigits(_, _)
ParseDigits(s, acc) ==
  IF s # <<>> /\ IsDigit(Head(s))
  THEN ParseDigits(Tail(s), 10 * acc + DigitValue(Head(s)))
  ELSE acc

\* parseInt(x): a sign, then the digits up to the first character that is none; NaN
\* when there is no digit there (no blanks, no 0x prefix among the inputs used)
parseInt(x) ==
  LET s    == JSToString(x)
      neg  == s # <<>> /\ Head(s) = "-"
      body == IF s # <<>> /\ Head(s) \in {"-", "+"} THEN Tail(s) ELSE s
  IN IF body = <<>> \/ ~IsDigit(Head(body)) THEN NaN
     ELSE Num(IF neg THEN 0 - ParseDigits(body, 0) ELSE ParseDigits(body, 0))

\* v || 0 for the result of parseInt: NaN and 0 are falsy
OrZero(v) == IF v.t = "num" /\ v.n # 0 THEN v.n ELSE 0

MathMax(a, b) == IF a >= b THEN a ELSE b
MathMin(a, b) == IF a <= b THEN a ELSE b

\* variant: the upper limit is forgotten
ValidateNoUpper(x, hi) == MathMax(0, OrZero(parseInt(x)))

\* Math.max(0, Math.min(hi, parseInt(x) || 0))
Validate(x, hi) == MathMax(0, MathMin(hi, OrZero(parseInt(x))))

\* variant: the scaled value is truncated
brightnessValueFloor(level) == (255 * level) \div 100

\* Math.round((level / 100) * 255) for an integer level in 0..100: halves round up
brightnessValue(level) == (255 * level + 50) \div 100

\* !!state
Truthy(x) ==
  CASE x.t = "num" -> x.n # 0
    [] x.t = "str" -> x.s # <<>>
    [] OTHER -> FALSE

\* this.COMMANDS[protocol]
POWER_ON(p) ==
  IF p = "ELK_BLEDOM" THEN <<126, 4, 4, 1, 255, 255, 255, 0, 239>>
  ELSE <<126, 0, 4, 240, 0, 1, 255, 0, 239>>

POWER_OFF(p) ==
  IF p = "ELK_BLEDOM" THEN <<126, 4, 4, 0, 255, 255, 255, 0, 239>>
  ELSE <<126, 0, 4, 0, 0, 0, 255, 0, 239>>

COLOR(p, r, g, b) ==
  IF p = "ELK_BLEDOM" THEN <<126, 7, 5, 3, r, g, b, 0, 239>>
  ELSE LET checksum == (r + g + b) % 256     \* (r + g + b) & 0xFF
       IN <<126, 0, 5, 3, r, g, b, 0, checksum, 239>>

BRIGHTNESS(p, level) ==
  IF p = "ELK_BLEDOM" THEN <<126, 4, 1, level, 255, 255, 255, 0, 239>>
  ELSE <<126, 0, 1, level, 255, 255, 255, 0, 239>>

EFFECT(p, id) ==
  IF p = "ELK_BLEDOM" THEN <<126, 5, 3, id, 3, 255, 255, 0, 239>>
  ELSE LET effectId == MathMin(255, MathMax(0, id))
       IN <<126, 0, 3, effectId, 3, 255, 255, 0, 239>>

\* new Uint8Array(command): every element modulo 256
Uint8Array(command) == [i \in 1..Len(command) |-> command[i] % 256]

\* the bytes each semantic command hands to writeValue
setColorRGB(p, r, g, b) ==
  Uint8Array(COLOR(p, Validate(r, 255), Validate(g, 255), Validate(b, 255)))

setBrightness(p, level) ==
  Uint8Array(BRIGHTNESS(p, brightnessValue(Validate(level, 100))))

setEffect(p, effectId) == Uint8Array(EFFECT(p, Validate(effectId, 255)))

setPower(p, state) == Uint8Array(IF Truthy(state) THEN POWER_ON(p) ELSE POWER_OFF(p))

\* ToNumber, as applied to the elements of an array given to new Uint8Array: a string
\* counts only when the whole of it is a numeral (the empty string is 0)
ToNumber(x) ==
  CASE x.t = "num" -> x
    [] x.t = "str" ->
         LET s    == x.s
             neg  == s # <<>> /\ Head(s) = "-"
             body == IF s # <<>> /\ Head(s) \in {"-", "+"} THEN Tail(s) ELSE s
         IN IF s = <<>> THEN Num(0)
            ELSE IF body # <<>> /\ \A i \in 1..Len(body) : IsDigit(body[i])
                 THEN Num(IF neg THEN 0 - ParseDigits(body, 0) ELSE ParseDigits(body, 0))
                 ELSE NaN
    [] OTHER -> NaN

\* the element of a Uint8Array made from the value x: ToNumber modulo 256, 0 for NaN
ToUint8(x) == LET v == ToNumber(x) IN IF v.t = "num" THEN v.n % 256 ELSE 0

\* DEVICE_CONFIG.PROTOCOLS[p].commands of the device manager, as the bytes of the
\* Uint8Array made from them
commands_on(p) ==
  IF p = "ELK_BLEDOM" THEN <<126, 0, 4, 1, 0, 0, 0, 239>> ELSE <<1, 255>>

commands_off(p) ==
  IF p = "ELK_BLEDOM" THEN <<126, 0, 4, 0, 0, 0, 0, 239>> ELSE <<1, 0>>

commands_color(p, r, g, b) ==
  IF p = "ELK_BLEDOM" THEN <<126, 0, 5, ToUint8(r), ToUint8(g), ToUint8(b), 0, 239>>
  ELSE <<2, ToUint8(r), ToUint8(g), ToUint8(b)>>

commands_brightness(p, val) ==
  IF p = "ELK_BLEDOM" THEN <<126, 0, 14, ToUint8(val), 0, 0, 0, 239>>
  ELSE <<3, ToUint8(val)>>

\* DeviceManager.sendHardwareCommand(command, data) on a hardware connection with
\* protocol p: the bytes given to writeValue, <<>> when it writes nothing
sendHardwareCommand(p, command, data) ==
  CASE command = "color" ->
         IF \A i \in 1..3 : data[i] # Undefined
         THEN commands_color(p, data[1], data[2], data[3]) ELSE <<>>
    [] command = "brightness" ->
         IF data[1] # Undefined THEN commands_brightness(p, data[1]) ELSE <<>>
    [] command = "on" -> commands_on(p)
    [] command = "off" -> commands_off(p)

setDeviceColor(p, r, g, b) == sendHardwareCommand(p, "color", <<r, g, b>>)

setDeviceBrightness(p, value) == sendHardwareCommand(p, "brightness", <<value>>)

setDevicePower(p, on) == sendHardwareCommand(p, IF Truthy(on) THEN "on" ELSE "off", <<>>)

\* arguments the encoder is tried on
StrChars == {"9", "a", "-"}

RECURSIVE StrsUpTo(_)
StrsUpTo(n) ==
  IF n = 0 THEN {<<>>}
  ELSE LET S == StrsUpTo(n - 1) IN S \cup {Append(s, ch) : s \in S, ch \in StrChars}

NonNumbers == {Str(s) : s \in StrsUpTo(MaxStr)} \cup {NaN, Undefined}
ChannelArgs == {Num(n) : n \in ((0 - Over)..Over) \cup ((255 - Over)..(255 + Over))}
               \cup NonNumbers
LevelArgs == {Num(n) : n \in (0 - Over)..(100 + Over)} \cup NonNumbers

EncCall(api, p, args) ==
  [api |-> api, protocol |-> p, args |-> args, frame |-> <<>>, done |-> FALSE]

\* colour arguments: any two channels free, the third from a few values of each kind
FewArgs == {Num(0 - 1), Num(0), Num(257), Str(<<"9", "a">>), Undefined}
ColourArgs ==
  {t \in ChannelArgs \X ChannelArgs \X ChannelArgs : \E i \in 1..3 : t[i] \in FewArgs}

EncCalls ==
  {EncCall("setColorRGB", p, t) : p \in KnownProtocols, t \in ColourArgs}
  \cup {EncCall("setBrightness", p, <<l>>) : p \in KnownProtocols, l \in LevelArgs}
  \cup {EncCall("setEffect", p, <<e>>) : p \in KnownProtocols, e \in ChannelArgs}
  \cup {EncCall("setPower", p, <<x>>) : p \in KnownProtocols, x \in ChannelArgs}
  \cup {EncCall("setDeviceColor", p, t) :
           p \in KnownProtocols, t \in FewArgs \X FewArgs \X FewArgs}
  \cup {EncCall("setDeviceBrightness", p, <<v>>) : p \in KnownProtocols, v \in ChannelArgs}
  \cup {EncCall("setDevicePower", p, <<x>>) : p \in KnownProtocols, x \in ChannelArgs}

bleVars == <<device, server, service, characteristic, isConnected, protocol, deviceName,
             deviceId, sinceLastCommand, gattConnected, listeners, appHandler,
             lastEvent, send, conn, loop, sinceLastWrite, overlap, exhausted,
             autoAfterExhausted, ops, sinceLastOkWrite, abandoned>>

Encoded(api, frame) ==
  /\ enc.api = api /\ ~enc.done
  /\ enc' = [enc EXCEPT !.frame = frame, !.done = TRUE]
  /\ UNCHANGED <<bleVars, otherVars>>

ColorCall ==
  Encoded("setColorRGB", setColorRGB(enc.protocol, enc.args[1], enc.args[2], enc.args[3]))

BrightnessCall == Encoded("setBrightness", setBrightness(enc.protocol, enc.args[1]))

EffectCall == Encoded("setEffect", setEffect(enc.protocol, enc.args[1]))

PowerCall == Encoded("setPower", setPower(enc.protocol, enc.args[1]))

DeviceColorCall ==
  Encoded("setDeviceColor",
          setDeviceColor(enc.protocol, enc.args[1], enc.args[2], enc.args[3]))

DeviceBrightnessCall ==
  Encoded("setDeviceBrightness", setDeviceBrightness(enc.protocol, enc.args[1]))

DevicePowerCall == Encoded("setDevicePower", setDevicePower(enc.protocol, enc.args[1]))

\* ------------------------------------------------------------ device registry
\* DeviceManager (src/js/device-manager.js): the devices and groups lists, the
\* connection history and what saveDevices / saveGroups / saveHistory leave in
\* localStorage.  A DeviceRecord is kept with the fields the operations below read or
\* write (id, name, group, connectionCount, hardwareConnection); a group with id,
\* parentGroup, subGroups, devices and level.  The controller that connectToDevice and
\* disconnectDevice delegate to (window.ledController) is the one modelled above; here
\* only the outcome of its connect() is an input.
DeviceIds   == {"d1"}               \* ids of the devices the scan finds
OtherIds    == {"d2"}               \* ids that appear only inside updates objects
GroupIds    == <<"g1", "g2", "g3", "g4", "g5", "g6">>   \* ids generateId hands out
Absent      == "absent"            \* a key an object does not have

NoHardware == [state |-> Absent, protocol |-> Null]

\* the record scanForDevices builds for a device it has not seen before
newDevice(id, name) ==
  [id |-> id, name |-> name, group |-> Null, connectionCount |-> 0,
   hardwareConnection |-> NoHardware]

\* Array.prototype.findIndex(x => x.id === id), counted from 1; 0 when there is none
findIndex(list, id) ==
  IF \E i \in DOMAIN list : list[i].id = id
  THEN CHOOSE i \in DOMAIN list :
         list[i].id = id /\ \A j \in 1..(i - 1) : list[j].id # id
  ELSE 0

\* Array.prototype.splice(index, 1)
splice(list, index) == SubSeq(list, 1, index - 1) \o SubSeq(list, index + 1, Len(list))

\* Array.prototype.filter(id => id !== deviceId)
without(list, dev) == SelectSeq(list, LAMBDA id : id # dev)

includes(list, x) == \E i \in DOMAIN list : list[i] = x

getDeviceById(dev) == findIndex(devices, dev)

\* JSON.stringify of a hardwareConnection: device, server, service and characteristic
\* are platform objects without own enumerable properties and come out as {}, the
\* protocol string is kept; JSON.parse gives back what the text says
stringifyHardware(hw) == IF hw.state = "live" THEN [hw EXCEPT !.state = "json"] ELSE hw

\* the text saveDevices stores: JSON.stringify(this.devices)
stringifyDevices(devs) ==
  [i \in DOMAIN devs |->
     [devs[i] EXCEPT !.hardwareConnection = stringifyHardware(@)]]

\* loadDevices: JSON.parse of the stored text
loadDevices(saved) == saved

saveDevices(store, devs) == [store EXCEPT !.devices = stringifyDevices(devs)]

saveGroups(store, grps) == [store EXCEPT !.groups = grps]

saveHistory(store, hist) == [store EXCEPT !.history = hist]

\* variant: nothing is ever evicted
addToHistoryNoCap(hist, dev, action, now) ==
  <<[deviceId |-> dev, action |-> action, timestamp |-> now]>> \o hist

\* addToHistory: unshift, then slice(0, 100) when the list got longer than that
addToHistory(hist, dev, action, now) ==
  LET entry   == [deviceId |-> dev, action |-> action, timestamp |-> now]
      longer  == <<entry>> \o hist
  IN IF Len(longer) > historyLimit THEN SubSeq(longer, 1, historyLimit) ELSE longer

NoCall == [method |-> "none", value |-> "undefined"]

\* one call of a registry operation: Date.now() moves on; the controller is not touched
RegistryCall(limit) ==
  /\ clock < limit /\ clock' = clock + 1
  /\ UNCHANGED <<bleVars, enc, appVars, swVars>>

\* the method returns value (a group object counts as "group")
Returns(method, value) == returned' = [method |-> method, value |-> value]

\* addToHistory(device, action) called on its own
HistoryCall ==
  /\ RegistryCall(MaxHistoryCalls)
  /\ connectionHistory' = addToHistory(connectionHistory, "d1", "connected", clock')
  /\ storage' = saveHistory(storage, connectionHistory')
  /\ Returns("addToHistory", "undefined")
  /\ UNCHANGED <<devices, groups, currentDevice, nextId>>

\* addDevice(device): false when the id is known, else push and save
addDevice(record) ==
  /\ RegistryCall(MaxRegOps)
  /\ IF \E i \in DOMAIN devices : devices[i].id = record.id
     THEN /\ Returns("addDevice", "false")
          /\ UNCHANGED <<devices, storage>>
     ELSE /\ devices' = Append(devices, record)
          /\ storage' = saveDevices(storage, devices')
          /\ Returns("addDevice", "true")
  /\ UNCHANGED <<groups, connectionHistory, currentDevice, nextId>>

\* variant: the loop copies every key, id included
updatedWithId(record, updates) ==
  [record EXCEPT !.id    = IF updates.id = Absent THEN @ ELSE updates.id,
                 !.name  = IF updates.name = Absent THEN @ ELSE updates.name,
                 !.group = IF updates.group = Absent THEN @ ELSE updates.group]

\* Object.keys(updates).forEach: every key but id whose value is not undefined
updated(record, updates) ==
  [record EXCEPT !.name  = IF updates.name = Absent THEN @ ELSE updates.name,
                 !.group = IF updates.group = Absent THEN @ ELSE updates.group]

\* the updates objects tried: one key each
Updates ==
  {[id |-> i, name |-> Absent, group |-> Absent] : i \in DeviceIds \cup OtherIds}
  \cup {[id |-> Absent, name |-> "Lamp", group |-> Absent]}
  \cup {[id |-> Absent, name |-> Absent, group |-> g] :
          g \in {Null} \cup {groups[k].id : k \in DOMAIN groups}}

\* updateDevice(deviceId, updates)
updateDevice(dev, updates) ==
  LET i == getDeviceById(dev)
  IN /\ RegistryCall(MaxRegOps)
     /\ IF i = 0
        THEN /\ Returns("updateDevice", "false")
             /\ UNCHANGED <<devices, storage>>
        ELSE /\ devices' = [devices EXCEPT ![i] = updated(@, updates)]
             /\ storage' = saveDevices(storage, devices')
             /\ Returns("updateDevice", "true")
     /\ UNCHANGED <<groups, connectionHistory, currentDevice, nextId>>

\* deleteDevice(deviceId) of a known device; the user answers the confirm() dialog
deleteDevice(dev, confirmed) ==
  LET index == findIndex(devices, dev)
  IN /\ index # 0
     /\ RegistryCall(MaxRegOps)
     /\ IF confirmed
        THEN /\ devices' = splice(devices, index)
             /\ storage' = saveDevices(storage, devices')
             /\ Returns("deleteDevice", "true")
        ELSE /\ Returns("deleteDevice", "false")
             /\ UNCHANGED <<devices, storage>>
     /\ UNCHANGED <<groups, connectionHistory, currentDevice, nextId>>

\* generateId: 'device_' + Date.now() + '_' + random, taken to be new every time
generateId == GroupIds[nextId]

RECURSIVE getGroupLevel(_)
getGroupLevel(groupId) ==
  LET i == findIndex(groups, groupId)
  IN IF i = 0 \/ groups[i].parentGroup = Null
     THEN 0
     ELSE getGroupLevel(groups[i].parentGroup) + 1

\* createGroup(name, description, parentGroupId) with a name that is not blank
createGroup(parentGroupId) ==
  LET group  == [id          |-> generateId,
                 devices     |-> <<>>,
                 parentGroup |-> parentGroupId,
                 subGroups   |-> <<>>,
                 level       |-> IF parentGroupId # Null
                                 THEN getGroupLevel(parentGroupId) + 1 ELSE 0]
      p      == findIndex(groups, parentGroupId)
      linked == IF parentGroupId # Null /\ p # 0
                THEN [groups EXCEPT ![p].subGroups = Append(@, group.id)]
                ELSE groups
  IN /\ nextId <= MaxGroups
     /\ RegistryCall(MaxRegOps)
     /\ groups' = Append(linked, group)
     /\ nextId' = nextId + 1
     /\ storage' = saveGroups(storage, groups')
     /\ Returns("createGroup", "group")
     /\ UNCHANGED <<devices, connectionHistory, currentDevice>>

\* addDeviceToGroup(deviceId, groupId) of a known device and a known group
addDeviceToGroup(dev, groupId) ==
  LET d       == getDeviceById(dev)
      g       == findIndex(groups, groupId)
      old     == findIndex(groups, devices[d].group)
      removed == IF devices[d].group # Null /\ old # 0
                 THEN [groups EXCEPT ![old].devices = without(@, dev)]
                 ELSE groups
      added   == IF includes(removed[g].devices, dev)
                 THEN removed
                 ELSE [removed EXCEPT ![g].devices = Append(@, dev)]
  IN /\ d # 0 /\ g # 0
     /\ RegistryCall(MaxRegOps)
     /\ devices' = [devices EXCEPT ![d].group = groupId]
     /\ groups' = added
     /\ storage' = saveGroups(saveDevices(storage, devices'), groups')
     /\ Returns("addDeviceToGroup", "true")
     /\ UNCHANGED <<connectionHistory, currentDevice, nextId>>

\* removeDeviceFromGroup(deviceId)
removeDeviceFromGroup(dev) ==
  LET d == getDeviceById(dev)
      g == findIndex(groups, devices[d].group)
  IN /\ RegistryCall(MaxRegOps)
     /\ IF d = 0 \/ devices[d].group = Null
        THEN /\ Returns("removeDeviceFromGroup", "false")
             /\ UNCHANGED <<devices, groups, storage>>
        ELSE /\ Returns("removeDeviceFromGroup", "true")
             /\ groups' = IF g # 0
                          THEN [groups EXCEPT ![g].devices = without(@, dev)]
                          ELSE groups
             /\ devices' = [devices EXCEPT ![d].group = Null]
             /\ storage' = saveGroups(saveDevices(storage, devices'), groups')
     /\ UNCHANGED <<connectionHistory, currentDevice, nextId>>

\* deleteGroup(groupId) of a known group
deleteGroup(groupId) ==
  LET index == findIndex(groups, groupId)
  IN /\ index # 0
     /\ RegistryCall(MaxRegOps)
     /\ devices' = [i \in DOMAIN devices |->
                      IF devices[i].group = groupId
                      THEN [devices[i] EXCEPT !.group = Null] ELSE devices[i]]
     /\ groups' = splice(groups, index)
     /\ storage' = saveGroups(saveDevices(storage, devices'), groups')
     /\ Returns("deleteGroup", "true")
     /\ UNCHANGED <<connectionHistory, currentDevice, nextId>>

\* what the platform and the controller do during one connectToDevice: whether the
\* direct path got as far as storing hardwareConnection, and whether the call succeeds
\* (the test write went through, or the fallback ledController.connect returned true)
Outcomes == [hardware : BOOLEAN, success : BOOLEAN]

\* connectToDevice(deviceId, protocol) of a known device
connectToDevice(dev, proto, outcome) ==
  LET i           == getDeviceById(dev)
      useProtocol == IF proto # Null THEN proto ELSE "ELK_BLEDOM"
      direct      == IF outcome.hardware
                     THEN [devices EXCEPT ![i].hardwareConnection =
                             [state |-> "live", protocol |-> useProtocol]]
                     ELSE devices
  IN /\ i # 0
     /\ Len(connectionHistory) < MaxConnects
     /\ RegistryCall(MaxRegOps)
     /\ IF outcome.success
        THEN /\ devices' = [direct EXCEPT ![i].connectionCount = @ + 1]
             /\ currentDevice' = dev
             /\ connectionHistory' =
                  addToHistory(connectionHistory, dev, "connected", clock')
             /\ storage' = saveHistory(saveDevices(storage, devices'), connectionHistory')
             /\ Returns("connectToDevice", "true")
        ELSE /\ devices' = direct
             /\ connectionHistory' =
                  addToHistory(connectionHistory, dev, "failed", clock')
             /\ storage' = saveHistory(storage, connectionHistory')
             /\ Returns("connectToDevice", "threw")
             /\ UNCHANGED currentDevice
     /\ UNCHANGED <<groups, nextId>>

\* disconnectDevice()
disconnectDevice ==
  /\ RegistryCall(MaxRegOps)
  /\ IF currentDevice # Null
     THEN /\ connectionHistory' =
               addToHistory(connectionHistory, currentDevice, "disconnected", clock')
          /\ storage' = saveHistory(storage, connectionHistory')
     ELSE UNCHANGED <<connectionHistory, storage>>
  /\ currentDevice' = Null
  /\ Returns("disconnectDevice", "undefined")
  /\ UNCHANGED <<devices, groups, nextId>>

\* the page is loaded again: the constructor, and init() reading the three lists back
Reload ==
  /\ RegistryCall(MaxRegOps)
  /\ devices' = loadDevices(storage.devices)
  /\ groups' = storage.groups
  /\ connectionHistory' = storage.history
  /\ currentDevice' = Null
  /\ Returns("constructor", "undefined")
  /\ UNCHANGED <<storage, nextId>>

\* ------------------------------------------- handleBLEDisconnect of the page
IdleRun == [pc |-> "idle", timer |-> NoTimer, waited |-> 0, made |-> 0, report |-> "none"]

IdlePage ==
  /\ AppState = [connected |-> FALSE, reconnecting |-> FALSE, reconnectAttempts |-> 0]
  /\ recovery = [r \in 1..MaxRuns |-> IdleRun]
  /\ appCalls = 0

\* the while loop from its test to the next await, entered with AppState.ble = st.
\* autoConnectDevices has no return statement, so `success` is undefined whatever
\* connectToDevice returned, and the branch of success is never taken
whileLoop(r, run, st) ==
  IF st.reconnectAttempts < AUTO_RECONNECT_MAX_ATTEMPTS
  THEN /\ AppState' = [st EXCEPT !.reconnectAttempts = @ + 1]
       /\ recovery' = [recovery EXCEPT ![r] =
              [run EXCEPT !.pc = "wait", !.timer = AUTO_RECONNECT_DELAY, !.waited = 0]]
  ELSE /\ AppState' = [st EXCEPT !.reconnecting = FALSE]
       /\ recovery' = [recovery EXCEPT ![r] =
              [run EXCEPT !.pc = "done", !.timer = NoTimer, !.report = "failure"]]

PageOnly == <<bleVars, enc, dmVars, swVars>>

\* a gattserverdisconnected event calls handleBLEDisconnect
handleBLEDisconnect ==
  /\ appCalls < MaxAppCalls /\ appCalls' = appCalls + 1
  /\ IF AppState.reconnecting
     THEN UNCHANGED <<AppState, recovery>>
     ELSE \E r \in DOMAIN recovery :
            /\ recovery[r].pc \in {"idle", "done"}
            /\ \A q \in 1..(r - 1) : recovery[q].pc \notin {"idle", "done"}
            /\ whileLoop(r, IdleRun, [AppState EXCEPT !.reconnecting = TRUE,
                                                      !.reconnectAttempts = 0])
  /\ UNCHANGED PageOnly

\* the 3000 ms setTimeout fires: autoConnectDevices(), which awaits connectToDevice
\* for a saved device with autoConnect and returns at once when there is none
RecoveryTimer(r, saved) ==
  /\ recovery[r].pc = "wait" /\ recovery[r].timer = 0
  /\ LET run == [recovery[r] EXCEPT !.made = @ + 1, !.timer = NoTimer]
     IN IF saved
        THEN /\ recovery' = [recovery EXCEPT ![r] = [run EXCEPT !.pc = "connecting"]]
             /\ UNCHANGED AppState
        ELSE whileLoop(r, run, AppState)
  /\ UNCHANGED <<appCalls, PageOnly>>

\* connectToDevice returns: true after ledController.connect succeeded (it has set
\* AppState.ble.connected), false after it failed
ConnectSettles(r, ok) ==
  /\ recovery[r].pc = "connecting"
  /\ whileLoop(r, recovery[r], [AppState EXCEPT !.connected = IF ok THEN TRUE ELSE @])
  /\ UNCHANGED <<appCalls, PageOnly>>

disconnectBLEDevice ==
  /\ appCalls < MaxAppCalls /\ appCalls' = appCalls + 1
  /\ AppState' = [AppState EXCEPT !.connected = FALSE]
  /\ UNCHANGED <<recovery, PageOnly>>

\* time passes up to the next setTimeout of the page
PageTick ==
  LET pending == {recovery[r].timer : r \in DOMAIN recovery} \ {NoTimer}
  IN /\ pending # {} /\ Min(pending) > 0
     /\ recovery' = [r \in DOMAIN recovery |->
           [recovery[r] EXCEPT !.timer = Later(@, Min(pending)),
              !.waited = IF recovery[r].pc = "wait"
                         THEN Cap(@ + Min(pending), AUTO_RECONNECT_DELAY) ELSE @]]
     /\ UNCHANGED <<AppState, appCalls, PageOnly>>

\* ------------------------------------------------- timer service worker
\* Timer objects are told apart by the number of the ADD_TIMER message that made
\* them (obj); activeTimers maps an id to the object stored under it.
TimerIds == {"t1", "t2"}
Unset == [obj |-> 0, status |-> "unset", repeat |-> FALSE]

IdleWorker ==
  /\ activeTimers = [id \in TimerIds |-> Unset]
  /\ timeouts = {}
  /\ executed = [id |-> "none", inMap |-> FALSE, status |-> "none"]
  /\ swMessages = 0

WorkerOnly == <<bleVars, enc, dmVars, appVars>>

\* triggerTimer(timer) up to the await of executeTimerAction: the action of the
\* timer object of the closure is carried out, whatever activeTimers holds
\* (executed notes what is stored under the id of the timer at that moment)
triggerTimer(t, map) ==
  /\ executed' = [id |-> t.id, inMap |-> map[t.id] # Unset,
                  status |-> IF map[t.id] # Unset THEN map[t.id].status ELSE "removed"]
  /\ timeouts' = (timeouts \ {t}) \cup {[t EXCEPT !.pc = "executing", !.left = NoTimer]}

\* ADD_TIMER: addTimer(data), then scheduleTimerCheck(timer): at once when the
\* trigger time has come, else by setTimeout
addTimer(id, wait, repeat) ==
  /\ swMessages < MaxSwMessages /\ swMessages' = swMessages + 1
  /\ activeTimers' = [activeTimers EXCEPT
        ![id] = [obj |-> swMessages', status |-> "active", repeat |-> repeat]]
  /\ LET t == [id |-> id, obj |-> swMessages', repeat |-> repeat, left |-> wait,
               pc |-> "pending"]
     IN IF wait <= 0
        THEN triggerTimer(t, activeTimers')
        ELSE timeouts' = timeouts \cup {t} /\ UNCHANGED executed
  /\ UNCHANGED WorkerOnly

\* REMOVE_TIMER: removeTimer(timerId)
removeTimer(id) ==
  /\ swMessages < MaxSwMessages /\ swMessages' = swMessages + 1
  /\ activeTimers' = [activeTimers EXCEPT ![id] = Unset]
  /\ UNCHANGED <<timeouts, executed, WorkerOnly>>

\* CLEAR_ALL_TIMERS: clearAllTimers()
clearAllTimers ==
  /\ swMessages < MaxSwMessages /\ swMessages' = swMessages + 1
  /\ activeTimers' = [id \in TimerIds |-> Unset]
  /\ UNCHANGED <<timeouts, executed, WorkerOnly>>

\* the setTimeout of scheduleTimerCheck fires
TimeoutFires(t) ==
  /\ t \in timeouts /\ t.pc = "pending" /\ t.left = 0
  /\ triggerTimer(t, activeTimers)
  /\ UNCHANGED <<activeTimers, swMessages, WorkerOnly>>

\* executeTimerAction settles: a repeating timer is scheduled again, another is
\* marked completed and removeTimer(timer.id) deletes what is stored under its id;
\* on an error the timer object is marked failed
ActionSettles(t, ok) ==
  /\ t \in timeouts /\ t.pc = "executing"
  /\ LET mine == activeTimers[t.id].obj = t.obj
     IN IF ok /\ t.repeat
        THEN /\ timeouts' = (timeouts \ {t}) \cup
                              {[t EXCEPT !.pc = "pending", !.left = TimerWait]}
             /\ UNCHANGED activeTimers
        ELSE /\ timeouts' = timeouts \ {t}
             /\ activeTimers' =
                  IF ok THEN [activeTimers EXCEPT ![t.id] = Unset]
                  ELSE IF mine THEN [activeTimers EXCEPT ![t.id].status = "failed"]
                  ELSE activeTimers
  /\ UNCHANGED <<executed, swMessages, WorkerOnly>>

\* time passes up to the next setTimeout of the worker
WorkerTick ==
  LET pending == {t.left : t \in timeouts} \ {NoTimer}
  IN /\ pending # {} /\ Min(pending) > 0
     /\ timeouts' = {[t EXCEPT !.left = Later(@, Min(pending))] : t \in timeouts}
     /\ UNCHANGED <<activeTimers, executed, swMessages, WorkerOnly>>

\* ------------------------------------------------------------ specification
NoEnc == EncCall("none", Null, <<>>)

IdleSession ==
  /\ device = Null /\ server = Null /\ service = Null /\ characteristic = Null
  /\ isConnected = FALSE /\ protocol = Null /\ deviceName = Null /\ deviceId = Null
  /\ sinceLastCommand = commandDelay    \* lastCommandTime = 0, Date.now() is large
  /\ gattConnected = FALSE
  /\ listeners = 0
  /\ lastEvent = [cause |-> "none", handled |-> 0]
  /\ send = [c \in Callers |-> IdleSend]
  /\ conn = [o \in Owners |-> IdleConn]
  /\ loop = [l \in Loops |-> IdleLoop]
  /\ sinceLastWrite = commandDelay
  /\ sinceLastOkWrite = commandDelay
  /\ overlap = FALSE
  /\ exhausted = FALSE
  /\ autoAfterExhausted = FALSE
  /\ ops = 0
  /\ abandoned = FALSE

\* the device manager constructed on an empty localStorage
EmptyRegistry ==
  /\ devices = <<>> /\ groups = <<>> /\ connectionHistory = <<>>
  /\ currentDevice = Null
  /\ storage = [devices |-> <<>>, groups |-> <<>>, history |-> <<>>]
  /\ nextId = 1
  /\ clock = 0
  /\ returned = NoCall

Init == IdleSession /\ appHandler \in BOOLEAN /\ enc = NoEnc /\ EmptyRegistry /\ IdlePage
        /\ IdleWorker

\* the encoder on its own: one call per behaviour, on arguments drawn at the start
InitEnc == IdleSession /\ appHandler = FALSE /\ enc \in EncCalls /\ EmptyRegistry /\ IdlePage
           /\ IdleWorker

\* the application awaits each command before it issues the next one, so the
\* flood-control wait never starts (lastCommandTime is always 50 ms old on return)
Next ==
  \/ \E c \in Sequential, api \in Apis, lat \in Lats : Call(c, api, lat)
  \/ \E c \in Sequential, lat \in Lats : BackoffDone(c, lat)
  \/ \E c \in Sequential : WriteResolve(c)
  \/ \E c \in Sequential : WriteReject(c)
  \/ \E c \in Sequential : WriteTimedOut(c)
  \/ \E c \in Sequential : SettleDone(c)
  \/ \E c \in Sequential, lat \in Lats : RcResolve(c, lat)
  \/ \E c \in Sequential, lat \in Lats : RcReject(c, lat)
  \/ \E l \in Loops : LoopTimer(l)
  \/ \E p \in ProtocolArgs : UserConnect(p)
  \/ \E o \in Owners : ConnResolve(o)
  \/ \E o \in Owners : ConnReject(o)
  \/ LinkDrop
  \/ Disconnect
  \/ Tick

Spec == Init /\ [][Next]_vars

\* the event loop runs every timer callback that is due and every continuation of
\* a platform write that has settled, and time passes; nothing makes a platform
\* promise settle (a write issued with no settle time, gatt.connect and the lookups
\* of reconnect() and connect() may stay pending for ever)
TimersFire ==
  /\ WF_vars(Tick)
  /\ \A c \in Sequential :
       /\ WF_vars(\E lat \in Lats : BackoffDone(c, lat))
       /\ WF_vars(WriteTimedOut(c))
       /\ WF_vars(SettleDone(c))
       /\ WF_vars(WriteResolve(c) \/ WriteReject(c))
  /\ \A l \in Loops : WF_vars(LoopTimer(l))

SpecFair == Spec /\ TimersFire

\* the same program on a platform that may still settle a write after its timer fired
NextLate == Next \/ LateSettle

SpecLate == Init /\ [][NextLate]_vars

\* two callers that do not wait for each other, in an application that defines
\* window.handleBLEDisconnect (so that no attemptReconnect runs beside them)
InitTwo == IdleSession /\ appHandler = TRUE /\ enc = NoEnc /\ EmptyRegistry /\ IdlePage
           /\ IdleWorker

NextTwo ==
  \/ \E c \in Callers, lat \in Lats : Call(c, "sendCommand", lat)
  \/ \E c \in Callers, lat \in Lats : FloodDone(c, lat)
  \/ \E c \in Callers, lat \in Lats : BackoffDone(c, lat)
  \/ \E c \in Callers : WriteResolve(c)
  \/ \E c \in Callers : WriteReject(c)
  \/ \E c \in Callers : WriteTimedOut(c)
  \/ \E c \in Callers : SettleDone(c)
  \/ \E c \in Callers, lat \in Lats : RcResolve(c, lat)
  \/ \E c \in Callers, lat \in Lats : RcReject(c, lat)
  \/ \E p \in ProtocolArgs : UserConnect(p)
  \/ ConnResolve(User)
  \/ ConnReject(User)
  \/ LinkDrop
  \/ Disconnect
  \/ Tick

SpecTwo == InitTwo /\ [][NextTwo]_vars

\* the recovery of the page on its own
NextPage ==
  \/ handleBLEDisconnect
  \/ \E r \in DOMAIN recovery, saved \in BOOLEAN : RecoveryTimer(r, saved)
  \/ \E r \in DOMAIN recovery, ok \in BOOLEAN : ConnectSettles(r, ok)
  \/ disconnectBLEDevice
  \/ PageTick

SpecPage == InitTwo /\ [][NextPage]_vars

\* the timer service worker on its own
NextWorker ==
  \/ \E id \in TimerIds, wait \in {0, TimerWait}, repeat \in BOOLEAN :
       addTimer(id, wait, repeat)
  \/ \E id \in TimerIds : removeTimer(id)
  \/ clearAllTimers
  \/ \E t \in timeouts : TimeoutFires(t)
  \/ \E t \in timeouts, ok \in BOOLEAN : ActionSettles(t, ok)
  \/ WorkerTick

SpecWorker == InitTwo /\ [][NextWorker]_vars

NextEnc ==
  \/ ColorCall \/ BrightnessCall \/ EffectCall \/ PowerCall
  \/ DeviceColorCall \/ DeviceBrightnessCall \/ DevicePowerCall

SpecEnc == InitEnc /\ [][NextEnc]_vars

\* the device manager on its own
InitReg == IdleSession /\ appHandler = FALSE /\ enc = NoEnc /\ EmptyRegistry /\ IdlePage
           /\ IdleWorker

NextReg ==
  \/ \E id \in DeviceIds : addDevice(newDevice(id, "Strip"))
  \/ \E id \in DeviceIds, updates \in Updates : updateDevice(id, updates)
  \/ \E id \in DeviceIds, confirmed \in BOOLEAN : deleteDevice(id, confirmed)
  \/ \E p \in {Null} \cup {GroupIds[k] : k \in 1..(nextId - 1)} : createGroup(p)
  \/ \E id \in DeviceIds, k \in DOMAIN groups : addDeviceToGroup(id, groups[k].id)
  \/ \E id \in DeviceIds : removeDeviceFromGroup(id)
  \/ \E k \in DOMAIN groups : deleteGroup(groups[k].id)
  \/ \E id \in DeviceIds, p \in {Null, "GENERIC"}, o \in Outcomes :
        connectToDevice(id, p, o)
  \/ disconnectDevice
  \/ Reload

SpecReg == InitReg /\ [][NextReg]_vars

\* addToHistory called over and over
NextHist == HistoryCall

SpecHist == InitReg /\ [][NextHist]_vars

\* ------------------------------------------------------------------ claims
SessionReleased == isConnected = FALSE /\ device = Null /\ server = Null /\ service = Null
            /\ characteristic = Null

\* C1: retry budget of sendCommand(command, retries = 3).  A call that passed the
\* connection guard never issues more than 3 writes and never throws; when it
\* returns false on a session the application did not release meanwhile, it has
\* issued exactly 3 writes, so the failure is reported only after the 3rd.
C1_RetryBudget ==
  \A c \in Callers :
    /\ send[c].guard = "passed" => send[c].writes <= Retries /\ send[c].result # "throw"
    /\ (send[c].pc = "done" /\ send[c].guard = "passed" /\ send[c].result = "false"
        /\ ~send[c].cut) => send[c].writes = Retries

\* a call whose 3 writes all failed has returned false
C1_Witness ==
  \E c \in Callers : send[c].pc = "done" /\ send[c].guard = "passed"
                     /\ send[c].result = "false" /\ ~send[c].cut /\ send[c].writes = 3

\* C2: sendCommand on a session that is not connected (isConnected false or no
\* characteristic) returns false at once: no write, no wait, no reconnect, and
\* lastCommandTime and the session fields are left as they were.
C2_RejectsWhenNotConnected ==
  [][\A c \in Callers :
       (Resting(send[c]) /\ send'[c] # send[c] /\ send'[c].guard # "none"
        /\ (~isConnected \/ characteristic = Null))
       => /\ send'[c].pc = "done" /\ send'[c].result = "false" /\ send'[c].writes = 0
          /\ UNCHANGED <<sessionVars, sinceLastCommand, sinceLastWrite, gattConnected,
                         listeners, conn, loop>>]_vars

\* a call was rejected by the guard after a session had existed
C2_Witness ==
  \E c \in Callers : send[c].pc = "done" /\ send[c].guard = "rejected"
                     /\ send[c].result = "false" /\ deviceName # Null

C4_DisconnectSuppressesRecovery ==
  lastEvent.cause = "disconnect" => lastEvent.handled = 0

\* C5: disconnect() always ends with isConnected false and device, server, service
\* and characteristic null, and on a session it has already released it changes
\* nothing.
C5_DisconnectIdempotent ==
  [][Disconnect =>
       /\ SessionReleased'
       /\ SessionReleased => UNCHANGED <<sessionVars, sinceLastCommand, gattConnected,
                                  listeners, lastEvent, send, conn, loop>>]_vars

\* a session that was connected has been released by disconnect()
C5_Witness == SessionReleased /\ lastEvent.cause = "disconnect" /\ deviceName # Null /\ ops = 3

\* C6, the part about one invocation: at most 3 connect attempts, each after a full
\* 3000 ms wait, each on the device already held (never a scan) with this.protocol.
C6_PerLoop ==
  \A l \in Loops :
    /\ loop[l].attempts <= maxAttempts
    /\ loop[l].pc = "connecting" => /\ loop[l].waited = delay
                                      /\ conn[l].pc # "scan"
    /\ (loop[l].pc = "done" /\ loop[l].result = "true") => conn[l].pc = "ok"

\* C6: as C6_PerLoop, and once an invocation has returned false after 3 failed
\* attempts, no connect of the recovery path starts or succeeds until the user acts.
C6_RecoveryProtocol == C6_PerLoop /\ ~autoAfterExhausted

\* C7: isConnected turns true only in the step in which a connect() call gets its
\* characteristic, after its GATT connect and its service lookup, and that step
\* registers the disconnect listener and returns true; a connect() call that fails
\* leaves isConnected false and throws.
C7_ConnectedOnlyAfterLookup ==
  [][/\ (~isConnected /\ isConnected')
        => \E o \in Owners : /\ conn[o].pc = "char" /\ conn'[o].pc = "ok"
                             /\ characteristic' = Live /\ device' # Null
                             /\ listeners' = Cap(listeners + 1, MaxListeners)
     /\ \A o \in Owners :
          /\ (Connecting(o) /\ conn'[o].pc \notin {"scan", "gatt", "service", "char"})
                => \/ conn'[o].pc = "ok" /\ conn[o].pc = "char" /\ isConnected'
                   \/ conn'[o].pc = "fail" /\ ~isConnected'
          /\ (conn[o].pc # conn'[o].pc /\ conn'[o].pc = "char") => conn[o].pc = "service"
          /\ (conn[o].pc # conn'[o].pc /\ conn'[o].pc = "service") => conn[o].pc = "gatt"
    ]_vars

\* the application's connect() has returned true
C7_Witness == conn[User].pc = "ok" /\ isConnected /\ listeners >= 1 /\ characteristic = Live

\* C8: a semantic command (setColorRGB, setBrightness, setEffect, setPower) never
\* throws; without a live session it returns false.
C8_CommandsNeverThrow ==
  \A c \in Callers : send[c].pc = "done" => send[c].result \in {"true", "false"}

\* what a channel argument stands for: an integer is itself; a string is the decimal
\* numeral at its head, negative after "-", and nothing when it has none there
Pow10(k) == IF k = 0 THEN 1 ELSE IF k = 1 THEN 10 ELSE IF k = 2 THEN 100 ELSE 1000
HeadNumeral(s) ==
  LET k == CHOOSE j \in 0..Len(s) :
             /\ \A i \in 1..j : IsDigit(s[i])
             /\ j < Len(s) => ~IsDigit(s[j + 1])
  IN [len |-> k,
      val |-> IF k = 0 THEN 0
              ELSE LET f[i \in 0..k] ==
                         IF i = 0 THEN 0 ELSE f[i - 1] + DigitValue(s[i]) * Pow10(k - i)
                   IN f[k]]
Clamped(n, hi) == IF n < 0 THEN 0 ELSE IF n > hi THEN hi ELSE n
\* the whole string is a decimal numeral, with or without a sign (the empty string
\* counts as 0)
NumericString(s) ==
  LET body == IF s # <<>> /\ s[1] = "-" THEN Tail(s) ELSE s
  IN s = <<>> \/ (body # <<>> /\ HeadNumeral(body).len = Len(body))
DenotedLeniently(x) ==
  CASE x.t = "num" -> x.n
    [] x.t = "str" /\ x.s # <<>> /\ x.s[1] = "-" -> 0 - HeadNumeral(Tail(x.s)).val
    [] x.t = "str" -> HeadNumeral(x.s).val
    [] OTHER -> 0
DenotedStrictly(x) ==
  IF x.t = "str" /\ ~NumericString(x.s) THEN 0 ELSE DenotedLeniently(x)
ColourFrameShape(channel(_)) ==
  (enc.api = "setColorRGB" /\ enc.done) =>
    LET f == enc.frame IN
    /\ Len(f) = IF enc.protocol = "ELK_BLEDOM" THEN 9 ELSE 10
    /\ \A i \in 1..3 : f[4 + i] = channel(enc.args[i])
    /\ enc.protocol = "GENERIC" =>
         /\ f[9] = (channel(enc.args[1]) + channel(enc.args[2]) + channel(enc.args[3])) % 256
         /\ f[10] = 239
StrictChannel(x) == Clamped(DenotedStrictly(x), 255)
LenientChannel(x) == Clamped(DenotedLeniently(x), 255)

C11_WireFormat ==
  (enc.done /\ enc.frame # <<>>) =>
    /\ Len(enc.frame) \in 8..10
    /\ enc.frame[1] = 126
    /\ enc.frame[Len(enc.frame)] = 239

\* some registry method was called in this step, and it was the one named
Called(method) == clock' # clock /\ returned'.method = method

UniqueIds == \A i, j \in DOMAIN devices : i # j => devices[i].id # devices[j].id

\* C12: addDevice of a record whose id is already in the devices list returns false
\* and leaves the list, the existing record included, as it was; and from the empty
\* registry no sequence of registry operations puts two records with the same id
\* into the list.
C12_NoUpsert ==
  /\ []UniqueIds
  /\ [][(Called("addDevice") /\ \A d \in DeviceIds : getDeviceById(d) # 0)
          => (devices' = devices /\ returned'.value = "false")]_vars

\* addDevice was refused for a record that differs from the one kept under that id
C12_Witness ==
  /\ returned = [method |-> "addDevice", value |-> "false"]
  /\ \E d \in DeviceIds :
       /\ getDeviceById(d) # 0
       /\ devices[getDeviceById(d)] # newDevice(d, "Strip")

\* C13: after any sequence of registry operations every device id is in the devices
\* list of at most one group.
C13_SingleGroup ==
  \A d \in DeviceIds \cup OtherIds :
    Cardinality({k \in DOMAIN groups : includes(groups[k].devices, d)}) <= 1

\* C14: after n calls of addToHistory the history holds min(n, 100) entries, the most
\* recent ones, newest first: entry i is the one made by call n - i + 1.
C14_HistoryCap ==
  /\ Len(connectionHistory) = Min({clock, historyLimit})
  /\ \A i \in DOMAIN connectionHistory : connectionHistory[i].timestamp = clock - i + 1

\* after 150 calls the history holds exactly 100 entries
C14_Witness ==
  /\ clock = MaxHistoryCalls
  /\ Len(connectionHistory) = historyLimit
  /\ connectionHistory[historyLimit].timestamp = MaxHistoryCalls - historyLimit + 1

\* C15: createGroup without a parent makes a group of level 0; createGroup with the id
\* of an existing group p makes a group whose parentGroup is p, whose level is p's
\* level + 1 and whose id is in p's subGroups list.
C15_CreateGroupLinks ==
  [][Called("createGroup") =>
       LET new == groups'[Len(groups')]
       IN IF new.parentGroup = Null
          THEN new.level = 0
          ELSE \A k \in DOMAIN groups :
                 groups[k].id = new.parentGroup =>
                   /\ new.level = groups[k].level + 1
                   /\ includes(groups'[k].subGroups, new.id)]_vars

\* C16: saving the devices list and loading it again gives back every record with the
\* same field values.
C16_RoundTrip == loadDevices(stringifyDevices(devices)) = devices

\* the call of caller c returns false in this step after its attempts ran out
SendExhausted(c) ==
  /\ send[c].pc # "done" /\ send'[c].pc = "done"
  /\ send'[c].result = "false" /\ send'[c].guard = "passed"

\* the attemptReconnect invocation in slot l returns false in this step
LoopExhausted(l) == ~AllFailed(loop[l]) /\ AllFailed(loop'[l])

\* a connect() called by the application fails in this step
UserConnectFailed == conn[User].pc # "fail" /\ conn'[User].pc = "fail"

\* C17: after a failure of the core (connect fails, sendCommand runs out of attempts,
\* attemptReconnect runs out of attempts) the controller is disconnected and at rest:
\* isConnected is false and no recovery loop is running.
C17_StableAfterFailure ==
  [][((\E c \in Callers : SendExhausted(c)) \/ (\E l \in Loops : LoopExhausted(l))
        \/ UserConnectFailed)
       => (~isConnected' /\ \A l \in Loops : loop'[l].pc \in {"idle", "done"})]_vars

\* C18: when the platform reports a link drop on a connected session, isConnected
\* becomes false and recovery starts: window.handleBLEDisconnect when the application
\* defines it, else an attemptReconnect invocation that was not running before.
C18_DropStartsRecovery ==
  [][(LinkDrop /\ isConnected) =>
       /\ ~isConnected'
       /\ lastEvent'.cause = "drop" /\ lastEvent'.handled >= 1
       /\ appHandler \/ \E l \in Loops : LoopFree(l) /\ loop'[l] = attemptReconnectEntry]_vars

\* a drop was observed on a connected session and an attemptReconnect is waiting
C18_Witness ==
  /\ lastEvent.cause = "drop" /\ lastEvent.handled >= 1
  /\ ~isConnected /\ ~appHandler /\ deviceName # Null
  /\ \E l \in Loops : loop[l].pc = "wait"

\* C19: when the recovery that sendCommand starts on a closed link fails, the attempt
\* ends there: no writeValue is issued for it, and it counts as a failed attempt
\* (backoff, or return false after the last one).
C19_FailedRecoveryAborts ==
  [][\A c \in Callers, lat \in Lats :
       RcReject(c, lat) => /\ send'[c].writes = send[c].writes
                           /\ send'[c].pc \in {"backoff", "done"}]_vars

\* C20: a write still pending when its 5000 ms timer fires is a failed attempt (backoff,
\* or return false after the last attempt; lastCommandTime is not stamped), and when
\* an abandoned write settles afterwards, no call's result or attempt count changes
\* and lastCommandTime stays as it was.
C20_TimeoutAbandonsWrite ==
  [][/\ \A c \in Callers :
          WriteTimedOut(c) =>
            /\ send'[c].pc = IF send[c].attempt = Retries THEN "done" ELSE "backoff"
            /\ send'[c].pc = "done" => send'[c].result = "false"
            /\ send'[c].writes = send[c].writes
            /\ sinceLastCommand' = sinceLastCommand
            /\ abandoned'
     /\ (abandoned /\ ~abandoned') =>
          /\ \A c \in Callers : /\ send'[c].result = send[c].result
                                /\ send'[c].attempt = send[c].attempt
          /\ sinceLastCommand' = sinceLastCommand]_vars

\* every attempt of a call timed out, the call returned false, and the writes it
\* abandoned are still pending
C20_Witness ==
  /\ abandoned
  /\ \E c \in Callers : /\ send[c].pc = "done" /\ send[c].result = "false"
                        /\ send[c].guard = "passed" /\ send[c].writes = Retries
  /\ gattConnected

\* an attempt of caller c fails in this step and the back-off wait starts
BackoffStarts(c) ==
  /\ send'[c].pc = "backoff"
  /\ send[c].pc # "backoff" \/ send'[c].attempt # send[c].attempt

\* the back-off wait of caller c ends in this step
BackoffEnds(c) ==
  /\ send[c].pc = "backoff"
  /\ send'[c].pc # "backoff" \/ send'[c].attempt # send[c].attempt

\* C21: when attempt k < retries fails, sendCommand waits 100 * k ms and then starts
\* attempt k + 1 at the flood-control step; when the last attempt fails it returns
\* false in that very step, without a wait; a failed attempt leaves lastCommandTime
\* as it was.
C21_LinearBackoff ==
  [][\A c \in Callers :
       /\ BackoffStarts(c) =>
            /\ send'[c].attempt < Retries
            /\ send'[c].timer = BackoffStep * send'[c].attempt
            /\ sinceLastCommand' = sinceLastCommand
       /\ BackoffEnds(c) =>
            /\ send[c].timer = 0
            /\ send'[c].pc # "done" => send'[c].attempt = send[c].attempt + 1
            /\ sinceLastCommand < commandDelay => send'[c].pc = "floodWait"
       /\ SendExhausted(c) =>
            /\ send[c].attempt + (IF send[c].pc = "backoff" THEN 1 ELSE 0) = Retries
            /\ send'[c].timer = NoTimer
            /\ sinceLastCommand' = sinceLastCommand]_vars

\* the second attempt of a call has just failed and the 200 ms wait has started
C21_Witness ==
  \E c \in Callers : /\ send[c].pc = "backoff" /\ send[c].attempt = 2
                     /\ send[c].timer = 2 * BackoffStep /\ send[c].writes = 2

\* C22: sendCommand is not reentrant-safe.  Each of two overlapping calls honours
\* the flood-control check on its own: an attempt goes on to the link test and the
\* write without waiting only when lastCommandTime is at least commandDelay old.
\* The check reads nothing but lastCommandTime, which a write in flight has not
\* stamped yet, so (witness) both calls pass it against the same lastCommandTime
\* and their writes start less than 50 ms apart.
C22_FloodCheckIsPerCall ==
  [][\A c \in Callers :
       (send[c].pc \in {"idle", "done", "backoff"} /\ send'[c].pc \in {"write", "rc_gatt"})
         => sinceLastCommand >= commandDelay]_vars

\* both callers passed the check on their first attempt and the second write was
\* started less than commandDelay after the first, which is still in flight
C22_Witness ==
  /\ overlap
  /\ \A c \in Callers : send[c].pc = "write" /\ send[c].attempt = 1
                        /\ send[c].elapsed >= commandDelay
  /\ send["c2"].gap < commandDelay

\* C23: one link drop starts at most one recovery loop: the gattserverdisconnected
\* event of a drop runs handleDisconnect once, at most one attemptReconnect is
\* running at any time, and no two connect() calls of the recovery path are in
\* flight together.
C23_OneLoopPerDrop ==
  /\ lastEvent.cause = "drop" => lastEvent.handled <= 1
  /\ Cardinality({l \in Loops : ~LoopFree(l)}) <= 1
  /\ Cardinality({l \in Loops : Connecting(l)}) <= 1

\* C24: when the reconnect() that sendCommand runs after a link drop succeeds
\* (GATT link re-opened, service and characteristic looked up again), isConnected is
\* true afterwards.
C24_FlagTracksRepairedLink ==
  [][\A c \in Callers, lat \in Lats :
       (RcResolve(c, lat) /\ send[c].pc = "rc_char") => isConnected']_vars

\* no call ends in an exception or goes beyond `retries` attempts and writes
C25_Safe ==
  \A c \in Callers :
    /\ send[c].result \in {"none", "true", "false"}
    /\ send[c].attempt <= Retries /\ send[c].writes <= Retries
    /\ send[c].pc = "done" => send[c].result \in {"true", "false"}

\* true is returned from the settle wait only, and the settle wait is entered only
\* when a write on an open link resolved
C25_TrueOnlyAfterWrite ==
  \A c \in Callers :
    /\ (send'[c].pc = "done" /\ send'[c].result = "true" /\ send[c].pc # "done")
         => send[c].pc = "settle"
    /\ (send'[c].pc = "settle" /\ send[c].pc # "settle")
         => send[c].pc = "write" /\ send[c].ready = 0 /\ send[c].link

C26_SendTerminates ==
  \A c \in Sequential : ~Resting(send[c]) ~> Resting(send[c])

\* C27: device/group referential integrity: after any sequence of registry
\* operations a device id d is in the devices list of group g exactly when a device
\* record with id d exists whose group field is g's id; so no list holds the id of a
\* deleted device and no group field names a deleted group.
C27_DeviceGroupIntegrity ==
  /\ \A k \in DOMAIN groups, d \in DeviceIds \cup OtherIds :
       includes(groups[k].devices, d)
         <=> \E i \in DOMAIN devices : /\ devices[i].id = d
                                        /\ devices[i].group = groups[k].id
  /\ \A i \in DOMAIN devices :
       devices[i].group # Null => \E k \in DOMAIN groups : groups[k].id = devices[i].group

\* C28: group tree integrity: after any sequence of createGroup and deleteGroup
\* calls every parentGroup is null or the id of an existing group that lists the
\* child in subGroups, every id in a subGroups list is an existing group whose
\* parentGroup is the lister, and every stored level is the one getGroupLevel derives.
C28_GroupTreeIntegrity ==
  \A k \in DOMAIN groups :
    /\ groups[k].parentGroup # Null =>
         \E p \in DOMAIN groups : /\ groups[p].id = groups[k].parentGroup
                                  /\ includes(groups[p].subGroups, groups[k].id)
    /\ \A i \in DOMAIN groups[k].subGroups :
         \E q \in DOMAIN groups : /\ groups[q].id = groups[k].subGroups[i]
                                  /\ groups[q].parentGroup = groups[k].id
    /\ groups[k].level = getGroupLevel(groups[k].id)

\* at most one handleBLEDisconnect loop runs, AppState.ble.reconnecting is true
\* exactly while it does, and it makes at most 3 attempts, each after 3000 ms
C29_OneBoundedLoop ==
  LET running == {r \in DOMAIN recovery : recovery[r].pc \in {"wait", "connecting"}}
  IN /\ Cardinality(running) <= 1
     /\ AppState.reconnecting <=> running # {}
     /\ AppState.reconnectAttempts <= AUTO_RECONNECT_MAX_ATTEMPTS
     /\ \A r \in DOMAIN recovery :
          /\ recovery[r].made <= AUTO_RECONNECT_MAX_ATTEMPTS
          /\ recovery[r].pc = "connecting" => recovery[r].waited = AUTO_RECONNECT_DELAY

\* an attempt that re-established the connection ends the loop with the report of
\* success
C29_StopsOnSuccess ==
  \A r \in DOMAIN recovery :
    ConnectSettles(r, TRUE) => /\ recovery'[r].pc = "done"
                               /\ recovery'[r].report = "success"
                               /\ ~AppState'.reconnecting

\* C29: the recovery of the page, handleBLEDisconnect: at most one loop at a time
\* (guarded by AppState.ble.reconnecting, false again when the loop ends), at most
\* AUTO_RECONNECT_MAX_ATTEMPTS = 3 attempts, each after a 3000 ms wait, and an
\* attempt that re-establishes the connection stops the loop, which reports success
\* instead of running the remaining attempts and reporting failure.
C29_AppRecovery == []C29_OneBoundedLoop /\ [][C29_StopsOnSuccess]_vars

\* C30: cancellation in the timer service worker: a timer removed by REMOVE_TIMER or
\* CLEAR_ALL_TIMERS before its trigger time never executes its action afterwards; an
\* action is executed only for a timer that is in activeTimers with status 'active'.
C30_RemovedTimerNeverFires ==
  executed.id # "none" => executed.inMap /\ executed.status = "active"
====
